---- MODULE Spec2Model ----
(***************************************************************************)
(* Model of the IQFeed client (iqfeed.go): the reader goroutine read(),    *)
(* the dispatcher processReceiver() with its per-kind handlers, the        *)
(* dynamic field map DynFields, the seven buffered channels made by        *)
(* Start(), the Quit channel, and the consumers of the channels.           *)
(*                                                                         *)
(* A line is a sequence of one-character strings (bytes).  The network is  *)
(* the environment: every ReadLine call draws its result (a complete line, *)
(* an oversized line, end-of-stream, or a read error).                     *)
(***************************************************************************)
EXTENDS Integers, Sequences, FiniteSets, TLC

\* ---------------------------------------------------------------- bounds
\* number of complete lines the network delivers in one run
MaxRecords == 2
\* largest bufferSize passed to Start
MaxBufferSize == 2

\* ------------------------------------------------------------- constants
\* bufio.NewReader(c.Conn): the reader's buffer, bufio's default size
defaultBufSize == 4096

\* ------------------------------------------------------- string literals
UPDATE_FIELDNAMES ==
  <<"U","P","D","A","T","E"," ","F","I","E","L","D","N","A","M","E","S">>

CURRENT_UPDATE_FIELDNAMES ==
  <<"C","U","R","R","E","N","T"," ">> \o UPDATE_FIELDNAMES

NOT_FOUND ==
  <<"N","o","t"," ","F","o","u","n","d">>

\* ------------------------------------------------- the lines on the wire
\* What the network may deliver as one complete line (line terminator
\* already stripped by ReadLine).
Lines ==
  { <<>>,                                                   \* empty line
    <<"S", ",">>,                                           \* 2 bytes
    <<"S", ",">> \o UPDATE_FIELDNAMES \o <<",","a",",","b">>,
    <<"S", ",">> \o CURRENT_UPDATE_FIELDNAMES \o <<",","c">>,
    <<"S", ",">> \o UPDATE_FIELDNAMES,                      \* no names
    <<"S", ",", "k">>,
    <<"P", ",", "x", ",", "1">>,
    <<"Q", ",", "x", ",", "1", ",", "2">>,
    <<"Q", ",", "y", ",", "1", ",">> \o NOT_FOUND,
    <<"Q", ",", "x">>,
    <<"T", ",", "1">>,
    <<"R", ",", "1">>,
    <<"F", ",", "1">>,
    <<"N", ",", "1">>,
    <<"n", ",", "z">>,
    <<"E", ",", "e">>,
    <<"X", ",", "g">> }

\* A line too long for the reader's buffer: defaultBufSize bytes, which
\* ReadLine returns as a prefix, and then the bytes of OversizedRest, which
\* the next ReadLine call would return as if they were a line.
OversizedRest ==
  <<"T", ",", "9">>

OversizedLen == defaultBufSize + Len(OversizedRest)

\* "\r\n", which read() appends to a line for the backup file.
CRLF ==
  <<"\r", "\n">>

QueueNames ==
  {"System", "News", "Errors", "Fundamental", "Regional", "Time", "Updates"}

VARIABLES
  pc,          \* where read() is: "idle" (not launched yet), "select",
               \* "ReadLine", "processReceiver", "returned", or "panicked"
               \* (run-time panic in the goroutine)
  conn,        \* c.Conn: "open" or "closed"
  eof,         \* the peer has ended the stream
  quit,        \* c.Quit: "none", "sent" (a value is waiting), "taken",
               \* "closed" (close(c.Quit))
  line,        \* read()'s local line
  isPrefix,    \* read()'s local isPrefix
  err,         \* read()'s local err: "nil", "EOF", "other"
  DynFields,   \* c.DynFields: index -> field name
  queues,      \* the seven channels' buffers
  bufferSize,  \* Start's bufferSize
  received,    \* per channel, what consumers have received, in order
  nread,       \* number of complete lines ReadLine has returned
  sent,        \* per channel, the messages dispatch has produced, in order
  lastControl, \* the names of the last field-name line the network
               \* delivered: << >> before the first, else << names >>
  rest,        \* the unread bytes of an oversized line whose prefix
               \* ReadLine has returned (<< >>: none)
  CreateBackup, \* c.CreateBackup
  backup,      \* what writeBackup has been given, in order
  caller,      \* the step of Start its goroutine is about to take
               \* (see StartSteps), or "returned"
  quitSeen,    \* the Quit case of the select has run
  readAfterQuit \* the last r.ReadLine() call was issued after the Quit
               \* signal had been raised

vars ==
  << pc, conn, eof, quit, line, isPrefix, err, DynFields, queues, bufferSize,
     received, nread, sent, lastControl, rest, CreateBackup, backup, caller,
     quitSeen, readAfterQuit >>

\* ------------------------------------------------------------ helpers
\* strings.Split(s, ","): the fields between commas; never empty.
RECURSIVE SplitAcc(_, _, _, _)
SplitAcc(s, i, cur, acc) ==
  IF i > Len(s) THEN Append(acc, cur)
  ELSE IF s[i] = "," THEN SplitAcc(s, i + 1, <<>>, Append(acc, cur))
  ELSE SplitAcc(s, i + 1, Append(cur, s[i]), acc)

Split(s) ==
  SplitAcc(s, 1, <<>>, <<>>)

\* d[2:] of a slice with len(d) >= 2
From2(d) ==
  SubSeq(d, 3, Len(d))

\* What a handler does: the new field map, the message it sends (at most
\* one, with its channel), or an index-out-of-range panic.  Every message
\* carries a tag, the position on the wire and the marker of the line it
\* was made from; the tag is bookkeeping, the program never reads it.
Effect(dyn, out, panic) ==
  [dyn |-> dyn, out |-> out, panic |-> panic]

Send(q, m) ==
  << [q |-> q, msg |-> m] >>

\* The loops at lines 68-70 and 73-75: c.DynFields[i-1] = pfx[i] for
\* i = 1 .. len(pfx)-1 (pfx is 1-based here, so pfx[i+1] is Go's pfx[i]).
\* The same loop storing at index i instead of i-1.
RECURSIVE SetDynFields_OffByOne(_, _, _)
SetDynFields_OffByOne(dyn, pfx, i) ==
  IF i >= Len(pfx) THEN dyn
  ELSE SetDynFields_OffByOne(
         [k \in (DOMAIN dyn) \cup {i} |->
            IF k = i THEN pfx[i + 1] ELSE dyn[k]],
         pfx, i + 1)

RECURSIVE SetDynFields(_, _, _)
SetDynFields(dyn, pfx, i) ==
  IF i >= Len(pfx) THEN dyn
  ELSE SetDynFields(
         [k \in (DOMAIN dyn) \cup {i - 1} |->
            IF k = i - 1 THEN pfx[i + 1] ELSE dyn[k]],
         pfx, i + 1)

processSysMsg(d, dyn, tag) ==
  LET pfx == Split(d) IN
    IF pfx[1] = UPDATE_FIELDNAMES THEN
      Effect(SetDynFields(dyn, pfx, 1), <<>>, FALSE)
    ELSE IF pfx[1] = CURRENT_UPDATE_FIELDNAMES THEN
      Effect(SetDynFields(dyn, pfx, 1), <<>>, FALSE)
    ELSE
      Effect(dyn, Send("System", [kind |-> "SystemMessage", tag |-> tag,
                                  data |-> d]), FALSE)

processSummaryMsg(d, dyn, tag) ==
  LET items == Split(d) IN
    Effect(dyn, Send("Updates", [kind |-> "UpdSummaryMsg", tag |-> tag,
                                 items |-> items, fields |-> dyn]), FALSE)

process404Msg(d, dyn, tag) ==
  Effect(dyn, Send("Errors", [kind |-> "ErrorMsg", tag |-> tag, data |-> d,
                              notFound |-> TRUE, code |-> 404]), FALSE)

\* processErrorMsg with process404Msg's flag and code.
processErrorMsg_As404(d, dyn, tag) ==
  Effect(dyn, Send("Errors", [kind |-> "ErrorMsg", tag |-> tag, data |-> d,
                              notFound |-> TRUE, code |-> 404]), FALSE)

processErrorMsg(d, dyn, tag) ==
  Effect(dyn, Send("Errors", [kind |-> "ErrorMsg", tag |-> tag, data |-> d,
                              notFound |-> FALSE, code |-> 500]), FALSE)

\* processUpdMsg handing the whole payload, not items[0], to process404Msg.
processUpdMsg_WholePayload(d, dyn, tag) ==
  LET items == Split(d) IN
    IF Len(items) < 3 THEN
      Effect(dyn, <<>>, TRUE)
    ELSE IF items[3] = NOT_FOUND THEN
      process404Msg(d, dyn, tag)
    ELSE
      Effect(dyn, Send("Updates", [kind |-> "UpdSummaryMsg", tag |-> tag,
                                   items |-> items, fields |-> dyn]), FALSE)

processUpdMsg(d, dyn, tag) ==
  LET items == Split(d) IN
    IF Len(items) < 3 THEN
      Effect(dyn, <<>>, TRUE)            \* items[2]: index out of range
    ELSE IF items[3] = NOT_FOUND THEN
      process404Msg(items[1], dyn, tag)
    ELSE
      Effect(dyn, Send("Updates", [kind |-> "UpdSummaryMsg", tag |-> tag,
                                   items |-> items, fields |-> dyn]), FALSE)

processTimeMsg(d, dyn, tag) ==
  Effect(dyn, Send("Time", [kind |-> "TimeMsg", tag |-> tag, data |-> d]),
         FALSE)

processRegUpdMsg(d, dyn, tag) ==
  Effect(dyn, Send("Regional", [kind |-> "RegionalMsg", tag |-> tag,
                                data |-> d]), FALSE)

processFndMsg(d, dyn, tag) ==
  Effect(dyn, Send("Fundamental", [kind |-> "FundamentalMsg", tag |-> tag,
                                   data |-> d]), FALSE)

\* processNewsMsg sending on c.System instead of c.News.
processNewsMsg_ToSystem(d, dyn, tag) ==
  Effect(dyn, Send("System", [kind |-> "NewsMsg", tag |-> tag, data |-> d]),
         FALSE)

processNewsMsg(d, dyn, tag) ==
  Effect(dyn, Send("News", [kind |-> "NewsMsg", tag |-> tag, data |-> d]),
         FALSE)

\* processReceiver that drops only lines shorter than 2 bytes.
processReceiver_ShortCheck(d, dyn, tag) ==
  IF Len(d) < 2 THEN Effect(dyn, <<>>, FALSE)
  ELSE LET data == From2(d) IN
    CASE d[1] = "S" -> processSysMsg(data, dyn, tag)
      [] d[1] = "P" -> processSummaryMsg(data, dyn, tag)
      [] d[1] = "Q" -> processUpdMsg(data, dyn, tag)
      [] d[1] = "T" -> processTimeMsg(data, dyn, tag)
      [] d[1] = "R" -> processRegUpdMsg(data, dyn, tag)
      [] d[1] = "F" -> processFndMsg(data, dyn, tag)
      [] d[1] = "N" -> processNewsMsg(data, dyn, tag)
      [] d[1] = "n" -> process404Msg(data, dyn, tag)
      [] d[1] = "E" -> processErrorMsg(data, dyn, tag)
      [] OTHER      -> Effect(dyn, <<>>, FALSE)

processReceiver(d, dyn, tag) ==
  IF Len(d) < 3 THEN Effect(dyn, <<>>, FALSE)
  ELSE LET data == From2(d) IN
    CASE d[1] = "S" -> processSysMsg(data, dyn, tag)
      [] d[1] = "P" -> processSummaryMsg(data, dyn, tag)
      [] d[1] = "Q" -> processUpdMsg(data, dyn, tag)
      [] d[1] = "T" -> processTimeMsg(data, dyn, tag)
      [] d[1] = "R" -> processRegUpdMsg(data, dyn, tag)
      [] d[1] = "F" -> processFndMsg(data, dyn, tag)
      [] d[1] = "N" -> processNewsMsg(data, dyn, tag)
      [] d[1] = "n" -> process404Msg(data, dyn, tag)
      [] d[1] = "E" -> processErrorMsg(data, dyn, tag)
      [] OTHER      -> Effect(dyn, <<>>, FALSE)

\* A send that never waits for room in the buffer.
SendEnabled_Always(ch) ==
  TRUE

\* A send on a buffered channel proceeds without a receiver while the
\* buffer has room.
SendEnabled(ch) ==
  Len(ch) < bufferSize

\* A send that overwrites what waits in the buffer.
ChanPut_Overwrite(ch, m) ==
  << m >>

\* A send that puts the message at the front of the buffer.
ChanPut_Front(ch, m) ==
  << m >> \o ch

\* The buffer after a send, and after a receive (first in, first out).
ChanPut(ch, m) ==
  Append(ch, m)

ChanTake(ch) ==
  Tail(ch)

\* A receive that hands out the newest message.
ChanFront_Last(ch) ==
  ch[Len(ch)]

ChanFront(ch) ==
  Head(ch)

\* The tag of the line being dispatched.
Tag(l, n) ==
  [id |-> n, marker |-> IF l = <<>> THEN "" ELSE l[1]]

\* A field-name line as the wire protocol defines it (names only).
IsControlLine(l) ==
  /\ Len(l) >= 3
  /\ l[1] = "S"
  /\ Split(From2(l))[1] \in {UPDATE_FIELDNAMES, CURRENT_UPDATE_FIELDNAMES}

ControlNames(l) ==
  Tail(Split(From2(l)))

\* c.writeBackup(bld): the backup file after bld is appended to it.
writeBackup(b, bld) ==
  Append(b, bld)

\* ---------------------------------------------------------------- Init
\* The state when Start has run connect(), made the channels and launched
\* read(): the connection is open, DynFields is the empty map made by
\* connect().  cb is c.CreateBackup as the caller set it, c the point the
\* caller has reached in Start.
Started(cb, c) ==
  /\ pc = "select"
  /\ conn = "open"
  /\ eof = FALSE
  /\ quit = "none"
  /\ line = <<>>
  /\ isPrefix = FALSE
  /\ err = "nil"
  /\ DynFields = << >>
  /\ queues = [q \in QueueNames |-> <<>>]
  /\ bufferSize \in 0..MaxBufferSize
  /\ received = [q \in QueueNames |-> <<>>]
  /\ nread = 0
  /\ sent = [q \in QueueNames |-> <<>>]
  /\ lastControl = << >>
  /\ quitSeen = FALSE
  /\ readAfterQuit = FALSE
  /\ rest = << >>
  /\ CreateBackup = cb
  /\ backup = << >>
  /\ caller = c

\* Start has returned; no backup file is kept (the zero value).
Init ==
  Started(FALSE, "returned")

\* The same with c.CreateBackup set.
InitBackup ==
  Started(TRUE, "returned")

\* The steps of Start in program order (lines 271, 279, 281), then its
\* return.  The channels (lines 272-278) are made between the first two.
StartSteps_ReaderFirst ==
  << "go", "connect", "ReqCurrentUpdateFNames", "returned" >>

StartSteps ==
  << "connect", "go", "ReqCurrentUpdateFNames", "returned" >>

\* The step of Start that follows step c.
StepAfter(c) ==
  LET i == CHOOSE j \in 1..(Len(StartSteps) - 1) : StartSteps[j] = c
  IN  StartSteps[i + 1]

\* Start has just been called on a fresh client: read() does not run yet
\* (pc "idle"), there is no connection, DynFields is the nil map.
InitStart ==
  /\ pc = "idle"
  /\ conn = "closed"     \* c.Conn is nil
  /\ eof = FALSE
  /\ quit = "none"
  /\ line = <<>>
  /\ isPrefix = FALSE
  /\ err = "nil"
  /\ DynFields = << >>
  /\ queues = [q \in QueueNames |-> <<>>]
  /\ bufferSize \in 0..MaxBufferSize
  /\ received = [q \in QueueNames |-> <<>>]
  /\ nread = 0
  /\ sent = [q \in QueueNames |-> <<>>]
  /\ lastControl = << >>
  /\ quitSeen = FALSE
  /\ readAfterQuit = FALSE
  /\ rest = << >>
  /\ CreateBackup = FALSE
  /\ backup = << >>
  /\ caller = StartSteps[1]

\* ------------------------------------------------------------- actions
\* The owner of the client signals shutdown: sends a value on c.Quit ...
SendQuit ==
  /\ quit = "none"
  /\ pc # "panicked"
  /\ quit' = "sent"
  /\ UNCHANGED << pc, conn, eof, line, isPrefix, err, DynFields, queues,
                  bufferSize, received, nread, sent, lastControl, quitSeen,
                  readAfterQuit, rest, CreateBackup, backup, caller >>

\* ... or closes c.Quit.
CloseQuit ==
  /\ quit = "none"
  /\ pc # "panicked"
  /\ quit' = "closed"
  /\ UNCHANGED << pc, conn, eof, line, isPrefix, err, DynFields, queues,
                  bufferSize, received, nread, sent, lastControl, quitSeen,
                  readAfterQuit, rest, CreateBackup, backup, caller >>

\* A Quit case that is also taken while a send in dispatch waits.
SelectQuit_WhileSending ==
  /\ pc \in {"select", "processReceiver"}
  /\ quit \in {"sent", "closed"}
  /\ conn' = "closed"
  /\ quit' = IF quit = "sent" THEN "taken" ELSE quit
  /\ quitSeen' = TRUE
  /\ pc' = pc
  /\ UNCHANGED << eof, line, isPrefix, err, DynFields, queues, bufferSize,
                  received, nread, sent, lastControl, readAfterQuit, rest,
                  CreateBackup, backup, caller >>

\* read(), lines 178-184: the select at the top of the for loop.  The Quit
\* case closes the connection; its break leaves the select, not the for
\* loop, so control returns to the top of the loop.
SelectQuit ==
  /\ pc = "select"
  /\ quit \in {"sent", "closed"}
  /\ conn' = "closed"
  /\ quit' = IF quit = "sent" THEN "taken" ELSE quit
  /\ quitSeen' = TRUE
  /\ pc' = "select"
  /\ UNCHANGED << eof, line, isPrefix, err, DynFields, queues, bufferSize,
                  received, nread, sent, lastControl, readAfterQuit, rest,
                  CreateBackup, backup, caller >>

\* The default case: the first r.ReadLine() of the iteration is issued.
SelectDefault ==
  /\ pc = "select"
  /\ quit \notin {"sent", "closed"}
  /\ pc' = "ReadLine"
  /\ readAfterQuit' = (quit # "none")
  /\ UNCHANGED << conn, eof, quit, line, isPrefix, err, DynFields, queues,
                  bufferSize, received, nread, sent, lastControl, quitSeen,
                  rest, CreateBackup, backup, caller >>

\* The end of the loop body going round again after a read error.
AfterLoop_RetryOnError(e) ==
  IF e = "nil"
  THEN /\ conn' = "closed"
       /\ pc' = "returned"
  ELSE /\ conn' = conn
       /\ pc' = "select"

\* The end of the loop body returning only on a read error: after a prefix
\* (err nil) the loop goes on.
AfterLoop_OnlyErrorsReturn(e) ==
  IF e = "other"
  THEN /\ conn' = "closed"
       /\ pc' = "returned"
  ELSE /\ conn' = conn
       /\ pc' = "select"

\* The end of the loop body returning on end-of-stream as well.
AfterLoop_ReturnOnEOF(e) ==
  /\ conn' = "closed"
  /\ pc' = "returned"

\* The end of the loop body returning without c.Conn.Close().
AfterLoop_NoClose(e) ==
  IF e # "EOF"
  THEN /\ conn' = conn
       /\ pc' = "returned"
  ELSE /\ conn' = conn
       /\ pc' = "select"

\* After the inner loop (lines 195-203), given ReadLine's isPrefix and err:
\* anything but io.EOF closes the connection and returns.
AfterLoop(e) ==
  IF e # "EOF"
  THEN /\ conn' = "closed"
       /\ pc' = "returned"
  ELSE /\ conn' = conn
       /\ pc' = "select"

\* r.ReadLine() returns a complete line (or, after a prefix, the rest of
\* the oversized line, which it cannot tell from a line): the inner loop's
\* condition holds, the line is written to the backup file if one is kept,
\* and it goes to processReceiver (lines 187-192).
ReadComplete ==
  /\ pc = "ReadLine"
  /\ conn = "open" /\ ~eof
  /\ nread < MaxRecords
  /\ \E l \in (IF rest = << >> THEN Lines ELSE {rest}) :
       /\ Len(l) <= defaultBufSize
       /\ line' = l
       /\ lastControl' = IF rest = << >> /\ IsControlLine(l)
                         THEN << ControlNames(l) >>
                         ELSE lastControl
       /\ backup' = IF CreateBackup THEN writeBackup(backup, l \o CRLF)
                     ELSE backup
  /\ rest' = << >>
  /\ isPrefix' = FALSE
  /\ err' = "nil"
  /\ nread' = nread + 1
  /\ pc' = "processReceiver"
  /\ UNCHANGED << conn, eof, quit, DynFields, queues, bufferSize, received,
                  sent, quitSeen, readAfterQuit, CreateBackup, caller >>

\* r.ReadLine() meets a line longer than the buffer: isPrefix, no error.
ReadOversized ==
  /\ pc = "ReadLine"
  /\ conn = "open" /\ ~eof
  /\ rest = << >>
  /\ OversizedLen > defaultBufSize
  /\ line' = <<>>
  /\ isPrefix' = TRUE
  /\ err' = "nil"
  /\ rest' = OversizedRest
  /\ AfterLoop("nil")
  /\ UNCHANGED << eof, quit, DynFields, queues, bufferSize, received, nread,
                  sent, lastControl, quitSeen, readAfterQuit, CreateBackup,
                  backup, caller >>

\* r.ReadLine() reports the end of the stream.
ReadEOF ==
  /\ pc = "ReadLine"
  /\ conn = "open"
  /\ eof' = TRUE
  /\ line' = <<>>
  /\ isPrefix' = FALSE
  /\ err' = "EOF"
  /\ AfterLoop("EOF")
  /\ UNCHANGED << quit, DynFields, queues, bufferSize, received, nread, sent,
                  lastControl, quitSeen, readAfterQuit, rest, CreateBackup,
                  backup, caller >>

\* r.ReadLine() fails: a network error, or the connection is closed.
ReadError ==
  /\ pc = "ReadLine"
  /\ conn = "closed" \/ ~eof
  /\ line' = <<>>
  /\ isPrefix' = FALSE
  /\ err' = "other"
  /\ AfterLoop("other")
  /\ UNCHANGED << eof, quit, DynFields, queues, bufferSize, received, nread,
                  sent, lastControl, quitSeen, readAfterQuit, rest,
                  CreateBackup, backup, caller >>

\* c.processReceiver(line) followed by the next r.ReadLine() call of the
\* inner loop (lines 192-193).  A send blocks while the channel is full;
\* on an unbuffered channel it hands the message to a receiving consumer.
Dispatch ==
  /\ pc = "processReceiver"
  /\ LET e == processReceiver(line, DynFields, Tag(line, nread)) IN
       IF e.panic THEN
         /\ pc' = "panicked"
         /\ UNCHANGED << DynFields, queues, received, sent, readAfterQuit >>
       ELSE
         /\ pc' = "ReadLine"
         /\ readAfterQuit' = (quit # "none")
         /\ DynFields' = e.dyn
         /\ IF e.out = <<>> THEN UNCHANGED << queues, received, sent >>
            ELSE LET q == e.out[1].q
                     m == e.out[1].msg IN
              /\ sent' = [sent EXCEPT ![q] = Append(@, m)]
              /\ IF SendEnabled(queues[q]) THEN
                   /\ queues' = [queues EXCEPT ![q] = ChanPut(@, m)]
                   /\ UNCHANGED received
                 ELSE
                   /\ bufferSize = 0
                   /\ received' = [received EXCEPT ![q] = Append(@, m)]
                   /\ UNCHANGED queues
  /\ UNCHANGED << conn, eof, quit, line, isPrefix, err, bufferSize, nread,
                  lastControl, quitSeen, rest, CreateBackup, backup, caller >>

\* A consumer receives from one of the channels.
Receive(q) ==
  /\ pc # "panicked"
  /\ queues[q] # <<>>
  /\ received' = [received EXCEPT ![q] = Append(@, ChanFront(queues[q]))]
  /\ queues' = [queues EXCEPT ![q] = ChanTake(@)]
  /\ UNCHANGED << pc, conn, eof, quit, line, isPrefix, err, DynFields,
                  bufferSize, nread, sent, lastControl, quitSeen,
                  readAfterQuit, rest, CreateBackup, backup, caller >>

Next ==
  \/ SendQuit
  \/ CloseQuit
  \/ SelectQuit
  \/ SelectDefault
  \/ ReadComplete
  \/ ReadOversized
  \/ ReadEOF
  \/ ReadError
  \/ Dispatch
  \/ \E q \in QueueNames : Receive(q)

Spec ==
  Init /\ [][Next]_vars

\* The client with the backup file enabled.
SpecBackup ==
  InitBackup /\ [][Next]_vars

\* connect() in the caller's goroutine: c.DynFields is replaced by a new
\* empty map (line 49) and the connection is dialled (lines 53-57).
connect ==
  /\ caller = "connect"
  /\ caller' = StepAfter(caller)
  /\ DynFields' = << >>
  /\ conn' = "open"
  /\ UNCHANGED << pc, eof, quit, line, isPrefix, err,
                  queues, bufferSize, received, nread, sent, lastControl,
                  rest, CreateBackup, backup, quitSeen, readAfterQuit >>

\* go c.read() (line 279): the reader starts at the top of its loop.
GoRead ==
  /\ caller = "go"
  /\ pc = "idle"
  /\ caller' = StepAfter(caller)
  /\ pc' = "select"
  /\ UNCHANGED << conn, eof, quit, line, isPrefix, err, DynFields,
                  queues, bufferSize, received, nread, sent, lastControl,
                  rest, CreateBackup, backup, quitSeen, readAfterQuit >>

\* Start's last step, in the caller's goroutine while read() already runs:
\* c.ReqCurrentUpdateFNames() writes a request to the connection.  It
\* touches none of the client's fields.
ReqCurrentUpdateFNames ==
  /\ caller = "ReqCurrentUpdateFNames"
  /\ caller' = StepAfter(caller)
  /\ UNCHANGED << pc, conn, eof, quit, line, isPrefix, err, DynFields,
                  queues, bufferSize, received, nread, sent, lastControl,
                  rest, CreateBackup, backup, quitSeen, readAfterQuit >>

NextStart ==
  \/ Next
  \/ connect
  \/ GoRead
  \/ ReqCurrentUpdateFNames

\* The client from the call of Start on.
SpecStart ==
  InitStart /\ [][NextStart]_vars

\* ================================================================ claims
\* The line read() has just finished dispatching: Dispatch leaves line
\* untouched and moves to the next ReadLine call.
Dispatched(l) ==
  pc = "ReadLine" /\ line = l /\ nread > 0

\* C1: after a field-name line with N names has been dispatched, the field
\* map resolves exactly the indices 0..N-1, index i to the i-th name; no
\* index installed by an earlier, longer line remains.
C1_DirectoryReplaced ==
  \A l \in Lines :
    (Dispatched(l) /\ IsControlLine(l)) =>
      LET names == ControlNames(l) IN
        /\ DOMAIN DynFields = 0 .. (Len(names) - 1)
        /\ \A i \in DOMAIN DynFields : DynFields[i] = names[i + 1]

\* C2: no line makes dispatch fail: processReceiver always returns and the
\* reader goes on to its next read.
C2_DispatchReturns ==
  pc # "panicked"

\* C3: an oversized line (ReadLine reports a prefix and no error) does not
\* stop the read loop: the reader has not returned and the connection is
\* still open.
C3_OversizedContinues ==
  (isPrefix /\ err = "nil") => (pc # "returned" /\ conn = "open")

\* C4: once the reader has taken the Quit case it issues no further read
\* and dispatches no further line.
C4_NoReadAfterQuitSeen ==
  quitSeen => pc \notin {"ReadLine", "processReceiver"}

\* C5: after the shutdown signal is raised the reader dispatches at most
\* one more record, the one whose read was in flight: no record of 3 or
\* more bytes returned by a ReadLine call issued after the signal is handed
\* to processReceiver.
C5_AtMostOneAfterSignal ==
  ~(pc = "processReceiver" /\ readAfterQuit /\ Len(line) >= 3)

\* ---------------------------------------------------------------- C6
Markers ==
  {"S", "P", "Q", "T", "R", "F", "N", "n", "E"}

\* The step is one call of processReceiver on a record of 3 or more bytes
\* with a known marker, and the call returns.
DispatchStep ==
  /\ pc = "processReceiver" /\ pc' = "ReadLine"
  /\ Len(line) >= 3
  /\ line[1] \in Markers

\* In this step exactly one message is sent, on channel t, and no other
\* channel is sent anything (t = "none": nothing is sent at all).
PushesOnlyOn(t) ==
  \A q \in QueueNames :
    IF q = t
    THEN /\ Len(sent'[q]) = Len(sent[q]) + 1
         /\ SubSeq(sent'[q], 1, Len(sent[q])) = sent[q]
         /\ sent'[q][Len(sent'[q])].tag = Tag(line, nread)
         /\ \/ queues'[q] = Append(queues[q], sent'[q][Len(sent'[q])])
            \/ received'[q] = Append(received[q], sent'[q][Len(sent'[q])])
    ELSE /\ sent'[q] = sent[q]
         /\ queues'[q] = queues[q]
         /\ received'[q] = received[q]

\* The channel the claim gives each marker.
ClaimedQueue(l) ==
  IF IsControlLine(l) THEN "none"
  ELSE CASE l[1] = "S" -> "System"
         [] l[1] \in {"P", "Q"} -> "Updates"
         [] l[1] = "T" -> "Time"
         [] l[1] = "R" -> "Regional"
         [] l[1] = "F" -> "Fundamental"
         [] l[1] = "N" -> "News"
         [] l[1] \in {"n", "E"} -> "Errors"

\* C6 as claimed: every record of 3 or more bytes with a known marker puts
\* exactly one message on the channel of its marker (Q on Updates) and
\* nothing on any other; a field-name line puts nothing anywhere.
C6_OnePushPerMarker ==
  [][DispatchStep => PushesOnlyOn(ClaimedQueue(line))]_vars

\* The third comma field of a Q record's payload, if it has one.
HasThreeFields(l) ==
  Len(Split(From2(l))) >= 3

IsNotFoundLine(l) ==
  /\ l[1] = "Q"
  /\ HasThreeFields(l)
  /\ Split(From2(l))[3] = NOT_FOUND

\* The channel each record's message goes to.
AmendedQueue(l) ==
  IF IsNotFoundLine(l) THEN "Errors" ELSE ClaimedQueue(l)

\* C6 amended: as claimed, except that a Q record whose field at position 2
\* is `Not Found` puts its one message on Errors, not on Updates, and a Q
\* record with fewer than three comma fields sends nothing: processReceiver
\* does not return on it.
C6_OnePushPerMarkerAmended ==
  [][ /\ DispatchStep => PushesOnlyOn(AmendedQueue(line))
      /\ ( /\ pc = "processReceiver" /\ pc' # pc
           /\ Len(line) >= 3 /\ line[1] = "Q" /\ ~HasThreeFields(line) )
         => (pc' = "panicked" /\ PushesOnlyOn("none"))
      /\ ( /\ pc = "processReceiver" /\ pc' = "panicked" )
         => (Len(line) >= 3 /\ line[1] = "Q" /\ ~HasThreeFields(line))
    ]_vars

\* A `Not Found` Q record has been dispatched and its message is the last
\* one sent on Errors.
C6_Witness ==
  /\ pc = "ReadLine" /\ nread > 0
  /\ Len(line) >= 3 /\ IsNotFoundLine(line)
  /\ sent["Errors"] # <<>>
  /\ sent["Errors"][Len(sent["Errors"])].tag = Tag(line, nread)

\* ---------------------------------------------------------------- C7
\* processReceiver is about to send on channel q and q's buffer is full.
BlockedOn(q) ==
  /\ pc = "processReceiver"
  /\ LET e == processReceiver(line, DynFields, Tag(line, nread)) IN
       /\ ~e.panic
       /\ e.out # <<>>
       /\ e.out[1].q = q
  /\ Len(queues[q]) >= bufferSize

\* C7: while a send on a full channel is blocked and no consumer takes a
\* message from that channel, the reader stays where it is: no further line
\* is read or dispatched, the field map does not change, and no channel is
\* sent a message.
C7_BackpressureStalls ==
  [][ \A q \in QueueNames :
        (BlockedOn(q) /\ received'[q] = received[q]) =>
          /\ pc' = pc /\ line' = line /\ nread' = nread
          /\ DynFields' = DynFields
          /\ sent' = sent
          /\ \A r \in QueueNames : Len(queues'[r]) <= Len(queues[r])
    ]_vars

\* A summary record waits to be sent on Updates, whose buffer is full.
C7_Witness ==
  /\ bufferSize >= 1
  /\ BlockedOn("Updates")
  /\ Len(queues["Updates"]) = bufferSize

\* ---------------------------------------------------------------- C8
\* How many times m occurs in the sequence s.
Occurrences(s, m) ==
  Cardinality({i \in DOMAIN s : s[i] = m})

\* C8: no channel ever holds more than bufferSize messages, and every
\* message dispatch has produced is, exactly once, either in its channel's
\* buffer or with a consumer; nothing else is.
C8_NoMessageLost ==
  \A q \in QueueNames :
    LET held == received[q] \o queues[q] IN
      /\ Len(queues[q]) <= bufferSize
      /\ Len(held) = Len(sent[q])
      /\ \A i \in DOMAIN sent[q] : Occurrences(held, sent[q][i]) = 1

\* A channel is full and a consumer has already received from it.
C8_Witness ==
  /\ bufferSize >= 1
  /\ \E q \in QueueNames :
       /\ Len(queues[q]) = bufferSize
       /\ received[q] # <<>>

\* ---------------------------------------------------------------- C9
\* Messages of records with the same marker are in wire order in s.
SameMarkerInWireOrder(s) ==
  \A i, j \in DOMAIN s :
    (i < j /\ s[i].tag.marker = s[j].tag.marker) => s[i].tag.id < s[j].tag.id

\* C9: on every channel, messages made from records with the same marker
\* were sent in wire order, and are received (and wait to be received) in
\* wire order.
C9_PerKindOrder ==
  \A q \in QueueNames :
    /\ SameMarkerInWireOrder(sent[q])
    /\ SameMarkerInWireOrder(received[q] \o queues[q])

\* A consumer has received two messages of the same marker from a channel
\* that can hold both at once.
C9_Witness ==
  /\ bufferSize >= 2
  /\ \E q \in QueueNames :
       /\ Len(received[q]) >= 2
       /\ received[q][1].tag.marker = received[q][2].tag.marker

\* --------------------------------------------------------------- C10
\* C10: when a P or Q record is about to be dispatched, the field map gives,
\* for the last field-name line that came before it on the wire, name i at
\* index i, for every name of that line.
C10_LatestNamesVisible ==
  ( /\ pc = "processReceiver"
    /\ Len(line) >= 3
    /\ line[1] \in {"P", "Q"}
    /\ lastControl # << >> ) =>
      LET names == lastControl[1] IN
        \A i \in 0 .. (Len(names) - 1) :
          /\ i \in DOMAIN DynFields
          /\ DynFields[i] = names[i + 1]

\* A P record follows a field-name line with at least one name, and its
\* message, made with the field map of that line, is on Updates.
C10_Witness ==
  /\ pc = "ReadLine" /\ nread > 0
  /\ Len(line) >= 3 /\ line[1] = "P"
  /\ lastControl # << >>
  /\ Len(lastControl[1]) >= 1
  /\ sent["Updates"] # <<>>
  /\ sent["System"] = <<>>
  /\ LET m == sent["Updates"][Len(sent["Updates"])] IN
       /\ m.tag = Tag(line, nread)
       /\ \A i \in 0 .. (Len(lastControl[1]) - 1) :
            m.fields[i] = lastControl[1][i + 1]

\* --------------------------------------------------------------- C11
\* The last message sent on channel q in this step.
NewOn(q) ==
  sent'[q][Len(sent'[q])]

\* The comma fields of a record's payload.
Fields(l) ==
  Split(From2(l))

\* C11: a Q record with three or more fields whose field at position 2 is
\* exactly `Not Found` puts one error message on Errors, with code 404, the
\* not-found flag set and field 0 as its symbol, and nothing on Updates;
\* any other Q record with three or more fields puts one update message on
\* Updates, made from its fields, and nothing on Errors.
C11_NotFoundUpdate ==
  [][ ( /\ pc = "processReceiver" /\ pc' # pc
        /\ Len(line) >= 3 /\ line[1] = "Q"
        /\ Len(Fields(line)) >= 3 ) =>
      IF Fields(line)[3] = NOT_FOUND
      THEN /\ PushesOnlyOn("Errors")
           /\ NewOn("Errors").kind = "ErrorMsg"
           /\ NewOn("Errors").code = 404
           /\ NewOn("Errors").notFound = TRUE
           /\ NewOn("Errors").data = Fields(line)[1]
      ELSE /\ PushesOnlyOn("Updates")
           /\ NewOn("Updates").kind = "UpdSummaryMsg"
           /\ NewOn("Updates").items = Fields(line)
    ]_vars

\* The error message of a `Not Found` Q record, with field 0 as its symbol,
\* has reached a consumer of Errors, and Updates was sent nothing.
C11_Witness ==
  /\ sent["Updates"] = <<>>
  /\ \E i \in DOMAIN received["Errors"] :
       LET m == received["Errors"][i] IN
         /\ m.tag.marker = "Q"
         /\ m.code = 404 /\ m.notFound
         /\ m.data = <<"y">>

\* --------------------------------------------------------------- C12
\* C12: an n record of 3 or more bytes puts on Errors one error message with
\* code 404, the not-found flag set and the bytes from offset 2 as payload;
\* an E record of 3 or more bytes puts on Errors one with code 500 and the
\* flag clear; neither puts anything on another channel.
C12_ErrorRecords ==
  [][ ( /\ pc = "processReceiver" /\ pc' # pc
        /\ Len(line) >= 3 /\ line[1] \in {"n", "E"} ) =>
      /\ PushesOnlyOn("Errors")
      /\ NewOn("Errors").kind = "ErrorMsg"
      /\ NewOn("Errors").data = SubSeq(line, 3, Len(line))
      /\ NewOn("Errors").code = (IF line[1] = "n" THEN 404 ELSE 500)
      /\ NewOn("Errors").notFound = (line[1] = "n")
    ]_vars

\* An n record and an E record have both been dispatched: Errors was sent
\* a 404 and a 500 message.
C12_Witness ==
  /\ \E i \in DOMAIN sent["Errors"] :
       /\ sent["Errors"][i].tag.marker = "n"
       /\ sent["Errors"][i].code = 404
  /\ \E i \in DOMAIN sent["Errors"] :
       /\ sent["Errors"][i].tag.marker = "E"
       /\ sent["Errors"][i].code = 500

\* --------------------------------------------------------------- C13
\* C13: a line shorter than 3 bytes (an empty line included), or one whose
\* first byte is not a known marker, is dropped: processReceiver returns,
\* nothing is sent on any channel and the field map is unchanged.
C13_DroppedNoEffect ==
  [][ ( /\ pc = "processReceiver" /\ pc' # pc
        /\ (Len(line) < 3 \/ line[1] \notin Markers) ) =>
      /\ pc' = "ReadLine"
      /\ PushesOnlyOn("none")
      /\ DynFields' = DynFields
    ]_vars

\* A field-name line and then a line too short or of unknown marker have
\* been dispatched; the field map is the one the first installed.
C13_Witness ==
  /\ pc = "ReadLine" /\ nread = 2
  /\ (Len(line) < 3 \/ line[1] \notin Markers)
  /\ DynFields # << >>
  /\ \A q \in QueueNames : sent[q] = <<>>

\* --------------------------------------------------------------- C14
\* No channel is sent a message and the field map is not written in this
\* step (consumers may still take what waits in the channels).
NothingDispatched ==
  /\ sent' = sent
  /\ DynFields' = DynFields
  /\ nread' = nread
  /\ \A q \in QueueNames : Len(queues'[q]) <= Len(queues[q])

\* C14: a read error other than end-of-stream makes read() close the
\* connection and return, and from then on it stays returned with the
\* connection closed: no read, no dispatch, no message on any channel.
C14_ReadErrorIsFinal ==
  [][ /\ err' = "other" => (pc' = "returned" /\ conn' = "closed")
      /\ err = "other" =>
           ( /\ pc' = pc /\ conn' = conn /\ err' = err /\ line' = line
             /\ NothingDispatched )
    ]_vars

\* The network failed (no shutdown was signalled) after a line had been
\* read, with a message still waiting in a channel.
C14_Witness ==
  /\ err = "other" /\ pc = "returned" /\ conn = "closed"
  /\ quit = "none"
  /\ nread >= 1
  /\ \E q \in QueueNames : queues[q] # <<>>

\* --------------------------------------------------------------- C15
\* C15: no part of an oversized line is dispatched or written to the backup
\* file: what goes to processReceiver, and to the backup file with "\r\n"
\* appended, is always a whole line of the wire, never a prefix and never
\* the rest of a line whose prefix was read; and while such a rest is
\* unread nothing is sent or written.
C15_NoFragmentDispatched ==
  [][ /\ (pc' = "processReceiver" /\ pc # "processReceiver") =>
           (~isPrefix' /\ rest = << >> /\ line' \in Lines)
      /\ backup' # backup =>
           (rest = << >> /\ line' \in Lines
            /\ backup' = Append(backup, line' \o CRLF))
      /\ (isPrefix \/ rest # << >>) =>
           (sent' = sent /\ backup' = backup /\ DynFields' = DynFields)
    ]_vars

\* With the backup file kept, a line was read, written and dispatched, and
\* then an oversized line arrived: its rest is unread, the backup file holds
\* the one line.
C15_Witness ==
  /\ CreateBackup
  /\ isPrefix /\ rest = OversizedRest
  /\ Len(backup) = 1 /\ nread = 1
  /\ \E q \in QueueNames : sent[q] # <<>>

\* --------------------------------------------------------------- C16
\* C16: after the connection has reported end-of-stream, and while no
\* shutdown has been signalled, read() has not returned and the connection
\* is open: the reader is at the select or in ReadLine, and its next step
\* (the default case, or another end-of-stream from ReadLine) is always
\* possible, so it goes round the loop for ever.  After end-of-stream it
\* returns only when a read fails, which takes a shutdown signal.
C16_EOFSpins ==
  [][ /\ (eof /\ quit = "none") =>
           ( /\ conn = "open"
             /\ pc \in {"select", "ReadLine"}
             /\ ENABLED (SelectDefault \/ ReadEOF) )
      /\ (eof' /\ quit' = "none") =>
           (conn' = "open" /\ pc' \in {"select", "ReadLine"})
      /\ (eof /\ pc # "returned" /\ pc' = "returned") =>
           (err' = "other" /\ quitSeen)
    ]_vars

\* After end-of-stream the reader is back in ReadLine a second time.
C16_Witness ==
  /\ eof /\ err = "EOF"
  /\ pc = "ReadLine"
  /\ quit = "none" /\ conn = "open"

\* --------------------------------------------------------------- C17
\* C17: the field map has one writer once read() runs.  The caller's only
\* write, the replacement in connect(), is made before read() is launched;
\* after that every change of DynFields is made by the reader while it
\* dispatches a field-name line of the S marker, and the caller's request
\* for the field names leaves the map alone.
C17_SingleWriter ==
  [][ /\ (caller = "connect" /\ caller' # caller) => pc = "idle"
      /\ (pc # "idle" /\ DynFields' # DynFields) =>
           ( /\ pc = "processReceiver" /\ IsControlLine(line)
             /\ caller' = caller )
      /\ (caller = "ReqCurrentUpdateFNames" /\ caller' # caller) =>
           DynFields' = DynFields
    ]_vars

\* The reader has filled the map while Start, in the caller's goroutine,
\* has not yet issued its request.
C17_Witness ==
  /\ caller = "ReqCurrentUpdateFNames"
  /\ DynFields # << >>
  /\ pc \in {"select", "ReadLine", "processReceiver"}

\* --------------------------------------------------------------- C18
\* C18: while the reader waits in a send on a full channel and no consumer
\* takes a message from that channel, a raised Quit signal has no effect:
\* the reader has not seen it and does not see it, the signal stays
\* pending, the connection is open and stays open, and the reader stays in
\* the send.
C18_QuitIgnoredWhileBlocked ==
  [][ \A q \in QueueNames :
        ( /\ BlockedOn(q)
          /\ quit \in {"sent", "closed"}
          /\ received'[q] = received[q] ) =>
          ( /\ pc' = pc
            /\ conn = "open" /\ conn' = "open"
            /\ ~quitSeen /\ ~quitSeen'
            /\ quit' = quit )
    ]_vars

\* A record waits to be sent on a full buffered channel, and Quit has been
\* raised.
C18_Witness ==
  /\ bufferSize >= 1
  /\ quit \in {"sent", "closed"}
  /\ \E q \in QueueNames : BlockedOn(q) /\ Len(queues[q]) = bufferSize

\* --------------------------------------------------------------- C19
\* The channels that take messages of more than one marker.
SharedQueues ==
  {"Updates", "Errors"}

InWireOrder(s) ==
  \A i, j \in DOMAIN s : i < j => s[i].tag.id < s[j].tag.id

\* C19: on Updates (records of the P and Q markers) and on Errors (records
\* of the n and E markers and Q records that say Not Found) the messages
\* were sent, and are received and wait to be received, in the wire order
\* of their records, whatever their markers.
C19_SharedQueueOrder ==
  /\ \A q \in SharedQueues :
       /\ InWireOrder(sent[q])
       /\ InWireOrder(received[q] \o queues[q])
  /\ \A i \in DOMAIN sent["Updates"] :
       sent["Updates"][i].tag.marker \in {"P", "Q"}
  /\ \A i \in DOMAIN sent["Errors"] :
       sent["Errors"][i].tag.marker \in {"n", "E", "Q"}

\* A consumer has received, from a shared channel that can hold both at
\* once, two messages made from records of different markers.
C19_Witness ==
  /\ bufferSize >= 2
  /\ \E q \in SharedQueues :
       /\ Len(received[q]) >= 2
       /\ received[q][1].tag.marker # received[q][2].tag.marker

\* --------------------------------------------------------------- C20
\* C20: read() returns only with the connection closed, and once it has
\* returned it stays returned, no channel is sent a message and DynFields
\* does not change.
C20_ReturnedMeansClosed ==
  [][ /\ pc' = "returned" => conn' = "closed"
      /\ pc = "returned" =>
           ( /\ pc' = "returned"
             /\ sent' = sent
             /\ DynFields' = DynFields
             /\ \A q \in QueueNames : Len(queues'[q]) <= Len(queues[q]) )
    ]_vars

\* read() has returned after it filled the field map and sent a message
\* that no consumer has taken yet.
C20_Witness ==
  /\ pc = "returned" /\ conn = "closed"
  /\ DynFields # << >>
  /\ \E q \in QueueNames : queues[q] # <<>>

====
